---- MODULE Spec2Model ----
(***************************************************************************)
(* Emotion detection service: the Watson client emotion_detector           *)
(* (EmotionDetection/emotion_detection.py), its Flask route                *)
(* /emotionDetector (server.py) and the direct caller of the package       *)
(* (test_emotion_detection.py), as a state machine over request slots.     *)
(***************************************************************************)
EXTENDS Integers, Sequences, FiniteSets, TLC

(***************************************************************************)
(* Bounds of the model.                                                    *)
(***************************************************************************)
\* longest text (in characters) a request or a direct call carries
MaxLen == 2
\* JSON integer scores range over 0..MaxScore
MaxScore == 1
\* longest emotionPredictions list an upstream body carries
MaxPreds == 2
\* request slots served concurrently
NumReq == 2

(***************************************************************************)
(* Program constants.                                                      *)
(***************************************************************************)
\* resp.status_code == 400
BadRequest == 400
\* the route's success status ("...", 200)
StatusOK == 200

\* the five score keys, in the order max() is handed them
EmotionOrder == <<"anger", "disgust", "fear", "joy", "sadness">>
Emotions == {EmotionOrder[i] : i \in 1..Len(EmotionOrder)}
ResultKeys == Emotions \cup {"dominant_emotion"}

(***************************************************************************)
(* Python values: None, int, float (with nan), str, list, dict.            *)
(***************************************************************************)
PyNone == [t |-> "None"]
PyInt(n) == [t |-> "int", n |-> n]
PyFloat(n) == [t |-> "float", nan |-> FALSE, n |-> n]
PyNaN == [t |-> "float", nan |-> TRUE, n |-> 0]
PyStr(s) == [t |-> "str", s |-> s]
PyList(items) == [t |-> "list", items |-> items]
PyDict(d) == [t |-> "dict", d |-> d]

\* the outcome of evaluating an expression: a value, or a raised exception
Ok(v) == [ok |-> TRUE, v |-> v]
Raise(e) == [ok |-> FALSE, exc |-> e]

\* bool(x) as `not x` uses it
Truthy(x) ==
    CASE x.t = "None" -> FALSE
      [] x.t = "int" -> x.n # 0
      [] x.t = "float" -> x.nan \/ x.n # 0
      [] x.t = "str" -> x.s # ""
      [] x.t = "list" -> Len(x.items) > 0
      [] x.t = "dict" -> DOMAIN x.d # {}

\* x.get(key, default): only a dict has the method
DictGet(x, key, default) ==
    IF x.t # "dict" THEN Raise("AttributeError")
    ELSE IF key \in DOMAIN x.d THEN Ok(x.d[key]) ELSE Ok(default)

\* x[0]
Subscript0(x) ==
    CASE x.t = "list" -> IF Len(x.items) > 0 THEN Ok(x.items[1]) ELSE Raise("IndexError")
      [] x.t = "dict" -> Raise("KeyError")
      \* a str's first character is again a str (the model's strs have one character)
      [] x.t = "str" -> IF x.s # "" THEN Ok(x) ELSE Raise("IndexError")
      [] OTHER -> Raise("TypeError")

\* float(x)
ToFloat(x) ==
    CASE x.t = "float" -> Ok(x)
      [] x.t = "int" -> Ok(PyFloat(x.n))
      [] x.t = "str" -> IF x.s = "nan" THEN Ok(PyNaN)
                        ELSE IF x.s = "0" THEN Ok(PyFloat(0))
                        ELSE IF x.s = "1" THEN Ok(PyFloat(1))
                        ELSE Raise("ValueError")
      [] OTHER -> Raise("TypeError")

\* a > b on floats: every comparison with nan is false
FloatGt(a, b) == ~a.nan /\ ~b.nan /\ a.n > b.n

\* str(x) as an f-string field renders it
Format(x) ==
    CASE x.t = "None" -> "None"
      [] x.t = "float" -> IF x.nan THEN "nan" ELSE ToString(x.n) \o ".0"
      [] x.t = "int" -> ToString(x.n)
      [] x.t = "str" -> x.s
      [] OTHER -> "?"

(***************************************************************************)
(* Text: a str as its sequence of characters.                              *)
(***************************************************************************)
Whitespace == {" "}
Alphabet == {" ", "a"}

RECURSIVE LStrip(_)
LStrip(s) == IF s # <<>> /\ Head(s) \in Whitespace THEN LStrip(Tail(s)) ELSE s

RECURSIVE RStrip(_)
RStrip(s) ==
    IF s # <<>> /\ s[Len(s)] \in Whitespace THEN RStrip(SubSeq(s, 1, Len(s) - 1)) ELSE s

\* s.strip()
Strip(s) == RStrip(LStrip(s))

\* every str of at most n characters
Texts(n) == UNION {[1..k -> Alphabet] : k \in 0..n}

\* a request field: absent (<<>>) or present with a text (<<t>>)
Fields(n) == {<<>>} \cup {<<t>> : t \in Texts(n)}

(***************************************************************************)
(* State.                                                                  *)
(***************************************************************************)
Reqs == 1..NumReq

VARIABLES
    EMPTY_RESULT,   \* the module-level dict of emotion_detection.py
    pc,             \* where each request slot is
    caller,         \* who called emotion_detector: "route", "test" or "none"
    request,        \* Flask's request: method, args, form
    text,           \* emotion_detector's argument text_to_analyze
    calls,          \* outbound requests.post calls issued for the slot
    resp,           \* what requests.post returned, or that it raised
    exc,            \* the exception propagating out of emotion_detector ("" = none)
    result,         \* the reference emotion_detector returned
    http,           \* what the route answered
    mutated         \* whether the caller wrote into the returned dict

vars == <<EMPTY_RESULT, pc, caller, request, text, calls, resp, exc, result, http, mutated>>

Unset == [t |-> "unset"]
NoRequest == [method |-> "none", args |-> <<>>, form |-> <<>>]

\* the dict literal of EMPTY_RESULT
AllNone == [k \in ResultKeys |-> PyNone]

\* the all-purpose reading of a reference: an aliased reference reads the global
Deref(x) == IF x.own THEN x.val ELSE EMPTY_RESULT

\* a reference to the very dict d names (no copy)
DictAlias(d) == [t |-> "ref", own |-> FALSE, val |-> d]

\* d.copy(): a fresh dict with d's items
DictCopy(d) == [t |-> "ref", own |-> TRUE, val |-> d]

\* a dict display {...}: a fresh dict
DictNew(d) == [t |-> "ref", own |-> TRUE, val |-> d]

(***************************************************************************)
(* emotion_detector after requests.post returned, lines 28-65.             *)
(***************************************************************************)
Response(status, body) == [t |-> "Response", status_code |-> status, body |-> body]
NotJson == [json |-> FALSE]
Json(data) == [json |-> TRUE, data |-> data]

\* resp.json()
RespJson(r) == IF r.body.json THEN Ok(r.body.data) ELSE Raise("JSONDecodeError")

\* max(*items, key=lambda kv: kv[1]): the first item no later item exceeds
RECURSIVE MaxFrom(_, _, _)
MaxFrom(items, i, best) ==
    IF i > Len(items) THEN best
    ELSE MaxFrom(items, i + 1, IF FloatGt(items[i][2], best[2]) THEN items[i] ELSE best)

PyMax(items) == MaxFrom(items, 2, items[1])

\* float(scores.get(key, 0.0))
Score(scores, key) ==
    LET g == DictGet(scores, key, PyFloat(0))
    IN  IF g.ok THEN ToFloat(g.v) ELSE g

\* lines 43-47: the five reads in order; the first that raises ends the call
ReadScores(scores) ==
    LET out == [k \in Emotions |-> Score(scores, k)]
        bad == {i \in 1..Len(EmotionOrder) : ~out[EmotionOrder[i]].ok}
    IN  IF bad = {} THEN Ok([k \in Emotions |-> out[k].v])
        ELSE out[EmotionOrder[CHOOSE i \in bad : \A j \in bad : i <= j]]

\* lines 49-65: the dominant emotion and the dict returned
Populated(f) ==
    DictNew([k \in ResultKeys |->
        IF k = "dominant_emotion"
        THEN PyStr(PyMax([i \in 1..Len(EmotionOrder) |-> <<EmotionOrder[i], f[EmotionOrder[i]]>>])[1])
        ELSE f[k]])

\* preds[-1]: the last entry in place of the first
PredictionLast(preds) ==
    IF preds.t = "list" /\ Len(preds.items) > 0 THEN Ok(preds.items[Len(preds.items)])
    ELSE Subscript0(preds)

\* preds[0]
FirstPrediction(preds) == Subscript0(preds)

\* lines 42-65
FromFirst(preds) ==
    LET e == FirstPrediction(preds)
    IN  IF ~e.ok THEN e
        ELSE LET s == DictGet(e.v, "emotion", PyDict(<<>>))
             IN  IF ~s.ok THEN s
                 ELSE LET f == ReadScores(s.v)
                      IN  IF ~f.ok THEN f ELSE Ok(Populated(f.v))

\* lines 42-65 without the emptiness test of line 39
FromPredsUnchecked(preds) == FromFirst(preds)

\* lines 39-40
FromPreds(preds) ==
    IF ~Truthy(preds) THEN Ok(DictCopy(EMPTY_RESULT)) ELSE FromFirst(preds)

\* line 38
FromData(data) ==
    LET p == DictGet(data, "emotionPredictions", PyList(<<>>))
    IN  IF ~p.ok THEN p ELSE FromPreds(p.v)

\* lines 33-36: any exception of resp.json() is swallowed
ParseBody(r) ==
    LET j == RespJson(r)
    IN  IF ~j.ok THEN Ok(DictCopy(EMPTY_RESULT)) ELSE FromData(j.v)

\* lines 32-65 without the status test of line 29
AfterPostNoStatusCheck(r) == ParseBody(r)

\* lines 29-30, then the rest
AfterPost(r) ==
    IF r.status_code = BadRequest THEN Ok(DictCopy(EMPTY_RESULT)) ELSE ParseBody(r)

\* line 22: not text_to_analyze or not text_to_analyze.strip()
\* not text_to_analyze alone, without the strip() test
IsBlankUnstripped(t) == t = <<>>

IsBlank(t) == t = <<>> \/ Strip(t) = <<>>

(***************************************************************************)
(* The route's text extraction and rendering, server.py.                   *)
(***************************************************************************)
\* request.args.get(k) or "": an absent field and an empty one both give ""
OrEmpty(field) == IF field = <<>> THEN <<>> ELSE field[1]

\* the query string read whatever the method
RouteTextArgsOnly(q) == Strip(OrEmpty(q.args))

\* lines 18-21
RouteText(q) == Strip(OrEmpty(IF q.method = "GET" THEN q.args ELSE q.form))

InvalidLine == "Invalid text! Please try again!"

\* lines 29-35
Sentence(d) ==
    "For the given statement, the system response is "
    \o "'anger': " \o Format(d["anger"]) \o ", 'disgust': " \o Format(d["disgust"])
    \o ", 'fear': " \o Format(d["fear"]) \o ", 'joy': " \o Format(d["joy"])
    \o " and 'sadness': " \o Format(d["sadness"])
    \o ". The dominant emotion is " \o Format(d["dominant_emotion"]) \o "."

HttpResponse(body, status) == [t |-> "http", status |-> status, body |-> body]

\* lines 26-36
Render(d) ==
    IF d["dominant_emotion"] = PyNone THEN HttpResponse(InvalidLine, StatusOK)
    ELSE HttpResponse(Sentence(d), StatusOK)

(***************************************************************************)
(* Inputs: inbound requests, direct calls, upstream responses.             *)
(***************************************************************************)
Requests(n) == [method : {"GET", "POST"}, args : Fields(n), form : Fields(n)]

UpstreamStatuses == {200, BadRequest, 500}

\* what a score key may hold in the upstream JSON
RawScores == {PyInt(n) : n \in 0..MaxScore} \cup {PyStr("nan"), PyStr("abc")}

\* every emotion mapping over a subset of the five keys
EmotionDicts == UNION {[K -> RawScores] : K \in SUBSET Emotions}

\* the mapping of a text with one emotion strictly highest
OneHot(e) == [k \in Emotions |-> PyInt(IF k = e THEN MaxScore ELSE 0)]

SampleDicts ==
    {OneHot(e) : e \in Emotions}
    \cup {<<>>, [k \in Emotions |-> PyInt(MaxScore)], [joy |-> PyInt(MaxScore)],
          [anger |-> PyStr("nan"), joy |-> PyInt(MaxScore)], [fear |-> PyStr("abc")]}

Entry(d) == PyDict([emotion |-> PyDict(d)])

\* what may follow the first prediction entry
OtherEntries == {Entry([sadness |-> PyInt(MaxScore)]), PyNone}

PredLists(firsts) ==
    {PyList(<<f>> \o rest) :
        f \in firsts, rest \in UNION {[1..k -> OtherEntries] : k \in 0..(MaxPreds - 1)}}

PredsBody(p) == Json(PyDict([emotionPredictions |-> p]))

\* bodies that differ in structure
StructBodies ==
    {NotJson, Json(PyNone), Json(PyList(<<>>)), Json(PyStr("x")), Json(PyDict(<<>>)),
     Json(PyDict([error |-> PyStr("x")]))}
    \cup {PredsBody(p) : p \in {PyList(<<>>), PyNone, PyInt(0), PyStr("x"), PyInt(5),
                                PyDict([k |-> PyNone])}}
    \cup {PredsBody(p) : p \in PredLists({PyNone, PyStr("x"), PyDict(<<>>),
                                          PyDict([emotion |-> PyNone]),
                                          PyDict([emotion |-> PyList(<<>>)])})}

SampleBodies == StructBodies \cup {PredsBody(p) : p \in PredLists({Entry(d) : d \in SampleDicts})}

ScoreBodies == StructBodies \cup {PredsBody(p) : p \in PredLists({Entry(d) : d \in EmotionDicts})}

Responses(bodies) == {Response(st, b) : st \in UpstreamStatuses, b \in bodies}

(***************************************************************************)
(* Actions.                                                                *)
(***************************************************************************)
Init ==
    /\ EMPTY_RESULT = AllNone
    /\ pc = [r \in Reqs |-> "idle"]
    /\ caller = [r \in Reqs |-> "none"]
    /\ request = [r \in Reqs |-> NoRequest]
    /\ text = [r \in Reqs |-> <<>>]
    /\ calls = [r \in Reqs |-> 0]
    /\ resp = [r \in Reqs |-> Unset]
    /\ exc = [r \in Reqs |-> ""]
    /\ result = [r \in Reqs |-> Unset]
    /\ http = [r \in Reqs |-> Unset]
    /\ mutated = [r \in Reqs |-> FALSE]

\* server.py 12-23: a request arrives, the route extracts the text and calls
\* emotion_detector
emotion_detector_route(r, requests) ==
    /\ pc[r] = "idle"
    /\ \E q \in requests :
        /\ request' = [request EXCEPT ![r] = q]
        /\ text' = [text EXCEPT ![r] = RouteText(q)]
    /\ caller' = [caller EXCEPT ![r] = "route"]
    /\ pc' = [pc EXCEPT ![r] = "detector"]
    /\ UNCHANGED <<EMPTY_RESULT, calls, resp, exc, result, http, mutated>>

\* test_emotion_detection.py 11-13: a direct call with any text
test_dominant_emotions(r, texts) ==
    /\ pc[r] = "idle"
    /\ \E t \in texts : text' = [text EXCEPT ![r] = t]
    /\ caller' = [caller EXCEPT ![r] = "test"]
    /\ pc' = [pc EXCEPT ![r] = "detector"]
    /\ UNCHANGED <<EMPTY_RESULT, request, calls, resp, exc, result, http, mutated>>

\* emotion_detection.py 19-26: the blank check, then the outbound call is issued
emotion_detector(r) ==
    /\ pc[r] = "detector"
    /\ IF IsBlank(text[r])
       THEN /\ result' = [result EXCEPT ![r] = DictCopy(EMPTY_RESULT)]
            /\ pc' = [pc EXCEPT ![r] = "returned"]
            /\ UNCHANGED calls
       ELSE /\ calls' = [calls EXCEPT ![r] = @ + 1]
            /\ pc' = [pc EXCEPT ![r] = "awaiting"]
            /\ UNCHANGED result
    /\ UNCHANGED <<EMPTY_RESULT, caller, request, text, resp, exc, http, mutated>>

\* what resp holds when requests.post raised instead of returning
TransportError == [t |-> "TransportError"]

\* the failure caught inside emotion_detector and turned into the all-null record
PostRaisesCaught(r) ==
    /\ pc[r] = "awaiting"
    /\ resp' = [resp EXCEPT ![r] = TransportError]
    /\ result' = [result EXCEPT ![r] = DictCopy(EMPTY_RESULT)]
    /\ pc' = [pc EXCEPT ![r] = "returned"]
    /\ UNCHANGED <<EMPTY_RESULT, caller, request, text, calls, exc, http, mutated>>

\* line 26: requests.post raises (connection error, timeout); nothing catches it
PostRaises(r) ==
    /\ pc[r] = "awaiting"
    /\ resp' = [resp EXCEPT ![r] = TransportError]
    /\ exc' = [exc EXCEPT ![r] = "RequestException"]
    /\ pc' = [pc EXCEPT ![r] = "raised"]
    /\ UNCHANGED <<EMPTY_RESULT, caller, request, text, calls, result, http, mutated>>

\* lines 26-65: requests.post returns a response and the function runs to its end
PostReturns(r, responses) ==
    /\ pc[r] = "awaiting"
    /\ \E x \in responses :
        /\ resp' = [resp EXCEPT ![r] = x]
        /\ LET out == AfterPost(x)
           IN  IF out.ok
               THEN /\ result' = [result EXCEPT ![r] = out.v]
                    /\ pc' = [pc EXCEPT ![r] = "returned"]
                    /\ UNCHANGED exc
               ELSE /\ exc' = [exc EXCEPT ![r] = out.exc]
                    /\ pc' = [pc EXCEPT ![r] = "raised"]
                    /\ UNCHANGED result
    /\ UNCHANGED <<EMPTY_RESULT, caller, request, text, calls, http, mutated>>

\* server.py 26-36: the route renders the record
RouteRender(r) ==
    /\ pc[r] = "returned"
    /\ caller[r] = "route"
    /\ http' = [http EXCEPT ![r] = Render(Deref(result[r]))]
    /\ pc' = [pc EXCEPT ![r] = "done"]
    /\ UNCHANGED <<EMPTY_RESULT, caller, request, text, calls, resp, exc, result, mutated>>

\* server.py 23: the call stands in no try block, the exception leaves the route
RouteUnhandled(r) ==
    /\ pc[r] = "raised"
    /\ caller[r] = "route"
    /\ http' = [http EXCEPT ![r] = [t |-> "unhandled", exc |-> exc[r]]]
    /\ pc' = [pc EXCEPT ![r] = "done"]
    /\ UNCHANGED <<EMPTY_RESULT, caller, request, text, calls, resp, exc, result, mutated>>

\* test_emotion_detection.py 13-14: the direct caller has its record, or the exception
TestReceives(r) ==
    /\ pc[r] \in {"returned", "raised"}
    /\ caller[r] = "test"
    /\ pc' = [pc EXCEPT ![r] = "done"]
    /\ UNCHANGED <<EMPTY_RESULT, caller, request, text, calls, resp, exc, result, http, mutated>>

\* a direct caller writes into the dict it was handed (Result is a mutable Dict)
CallerMutate(r) ==
    /\ pc[r] = "done"
    /\ caller[r] = "test"
    /\ result[r] # Unset
    /\ ~mutated[r]
    /\ \E k \in {"anger", "dominant_emotion"} :
        LET v == IF k = "anger" THEN PyFloat(1) ELSE PyStr("joy")
        IN  IF result[r].own
            THEN /\ result' = [result EXCEPT ![r].val[k] = v]
                 /\ UNCHANGED EMPTY_RESULT
            ELSE /\ EMPTY_RESULT' = [EMPTY_RESULT EXCEPT ![k] = v]
                 /\ UNCHANGED result
    /\ mutated' = [mutated EXCEPT ![r] = TRUE]
    /\ UNCHANGED <<pc, caller, request, text, calls, resp, exc, http>>

\* server.py 38-39: the server goes on serving; the slot takes the next request
NextRequest(r) ==
    /\ pc[r] = "done"
    /\ pc' = [pc EXCEPT ![r] = "idle"]
    /\ caller' = [caller EXCEPT ![r] = "none"]
    /\ request' = [request EXCEPT ![r] = NoRequest]
    /\ text' = [text EXCEPT ![r] = <<>>]
    /\ calls' = [calls EXCEPT ![r] = 0]
    /\ resp' = [resp EXCEPT ![r] = Unset]
    /\ exc' = [exc EXCEPT ![r] = ""]
    /\ result' = [result EXCEPT ![r] = Unset]
    /\ http' = [http EXCEPT ![r] = Unset]
    /\ mutated' = [mutated EXCEPT ![r] = FALSE]
    /\ UNCHANGED EMPTY_RESULT

(***************************************************************************)
(* Specifications.                                                         *)
(***************************************************************************)
\* one request at a time through the route or a direct call, every text and
\* request encoding, bodies of every structure
Next ==
    \/ emotion_detector_route(1, Requests(MaxLen))
    \/ test_dominant_emotions(1, Texts(MaxLen))
    \/ emotion_detector(1)
    \/ PostRaises(1)
    \/ PostReturns(1, Responses(SampleBodies))
    \/ RouteRender(1)
    \/ RouteUnhandled(1)
    \/ TestReceives(1)
    \/ NextRequest(1)

Spec == Init /\ [][Next]_vars

\* one direct call at a time, every emotion mapping
NextScores ==
    \/ test_dominant_emotions(1, {<<"a">>, <<" ">>})
    \/ emotion_detector(1)
    \/ PostRaises(1)
    \/ PostReturns(1, Responses(ScoreBodies))
    \/ TestReceives(1)
    \/ NextRequest(1)

SpecScores == Init /\ [][NextScores]_vars

\* concurrent requests and direct calls whose callers may write into their records
ConcRequests ==
    {[method |-> "GET", args |-> <<<<"a">>>>, form |-> <<>>],
     [method |-> "POST", args |-> <<>>, form |-> <<<<" ">>>>]}

ConcResponses ==
    {Response(BadRequest, PredsBody(PyList(<<Entry(OneHot("joy"))>>))),
     Response(200, PredsBody(PyList(<<Entry(OneHot("joy"))>>))),
     Response(200, PredsBody(PyList(<<>>))),
     Response(200, Json(PyList(<<>>)))}

NextConc ==
    \E r \in Reqs :
        \/ emotion_detector_route(r, ConcRequests)
        \/ test_dominant_emotions(r, {<<"a">>, <<" ">>})
        \/ emotion_detector(r)
        \/ PostRaises(r)
        \/ PostReturns(r, ConcResponses)
        \/ RouteRender(r)
        \/ RouteUnhandled(r)
        \/ TestReceives(r)
        \/ CallerMutate(r)
        \/ NextRequest(r)

SpecConc == Init /\ [][NextConc]_vars

(***************************************************************************)
(* Properties.                                                             *)
(***************************************************************************)
\* the record a slot's emotion_detector call returned
Rec(r) == Deref(result[r])

HasResponse(r) == resp[r].t = "Response"

\* the positions in EmotionOrder whose score in d is a number (not nan), and those of
\* them that hold the greatest number
Numeric(d) == {i \in 1..Len(EmotionOrder) : ~d[EmotionOrder[i]].nan}
Greatest(d) ==
    {i \in Numeric(d) : \A j \in Numeric(d) : d[EmotionOrder[i]].n >= d[EmotionOrder[j]].n}

\* C1: every record emotion_detector returns is all null, or all six fields are
\* non-null, the five scores are floats and dominant_emotion names a score field
\* whose score is the maximum of the five (nan scores, which have no order, aside).
C1_RecordShape ==
    \A r \in Reqs :
        (result[r] # Unset /\ ~mutated[r]) =>
            LET d == Rec(r)
            IN  \/ \A k \in ResultKeys : d[k] = PyNone
                \/ /\ \A k \in ResultKeys : d[k] # PyNone
                   /\ \A e \in Emotions : d[e].t = "float"
                   /\ \E i \in 1..Len(EmotionOrder) :
                        /\ d["dominant_emotion"] = PyStr(EmotionOrder[i])
                        /\ Numeric(d) # {} => i \in Greatest(d)

\* C2: in a populated record dominant_emotion is the emotion of maximum score, the
\* earliest in anger, disgust, fear, joy, sadness of those that share the maximum
\* (nan scores, which have no order, aside).
C2_DominantIsFirstArgmax ==
    \A r \in Reqs :
        (result[r] # Unset /\ ~mutated[r] /\ Rec(r)["dominant_emotion"] # PyNone) =>
            LET d == Rec(r)
                top == Greatest(d)
            IN  Numeric(d) # {} =>
                    d["dominant_emotion"] =
                        PyStr(EmotionOrder[CHOOSE i \in top : \A j \in top : i <= j])

\* a str that is empty or holds whitespace only
AllWhitespace(t) == \A i \in 1..Len(t) : t[i] \in Whitespace

\* C3: for an empty or all-whitespace text emotion_detector returns the all-null
\* record and issues no outbound request.
C3_BlankNoCall ==
    \A r \in Reqs :
        (pc[r] # "idle" /\ AllWhitespace(text[r])) =>
            /\ calls[r] = 0
            /\ resp[r] = Unset
            /\ exc[r] = ""
            /\ pc[r] # "detector" => (pc[r] \in {"returned", "done"} /\ result[r] # Unset
                                      /\ Rec(r) = AllNone)

\* a direct call with a whitespace-only, non-empty text has returned the all-null record
C3_Witness ==
    \E r \in Reqs :
        /\ caller[r] = "test" /\ pc[r] = "returned"
        /\ Len(text[r]) > 0 /\ AllWhitespace(text[r])
        /\ Rec(r) = AllNone /\ calls[r] = 0

\* the body carries predictions of the documented shape, numbers for all five keys
WellFormedPredictions(body) ==
    /\ body.json
    /\ body.data.t = "dict"
    /\ "emotionPredictions" \in DOMAIN body.data.d
    /\ LET p == body.data.d["emotionPredictions"]
       IN  /\ p.t = "list" /\ Len(p.items) > 0
           /\ p.items[1].t = "dict" /\ "emotion" \in DOMAIN p.items[1].d
           /\ LET m == p.items[1].d["emotion"]
              IN  /\ m.t = "dict"
                  /\ DOMAIN m.d = Emotions
                  /\ \A e \in Emotions : m.d[e].t = "int"

\* C4: an upstream 400 yields the all-null record whatever the body holds.
C4_Status400AllNull ==
    \A r \in Reqs :
        (HasResponse(r) /\ resp[r].status_code = BadRequest) =>
            /\ exc[r] = ""
            /\ pc[r] \in {"returned", "done"}
            /\ result[r] # Unset
            /\ ~mutated[r] => Rec(r) = AllNone

\* a 400 whose body carries well-formed predictions was answered by the all-null record
C4_Witness ==
    \E r \in Reqs :
        /\ HasResponse(r) /\ resp[r].status_code = BadRequest
        /\ WellFormedPredictions(resp[r].body)
        /\ pc[r] = "returned" /\ Rec(r) = AllNone

\* the body cannot be read as the expected structure: it is no JSON, or on the path
\* the code walks (top level, emotionPredictions, its first entry, that entry's emotion
\* mapping, the five scores) a value has a type the structure does not allow
Coercible(x) == x.t \in {"int", "float"} \/ (x.t = "str" /\ x.s \in {"0", "1", "nan"})

Malformed(body) ==
    \/ ~body.json
    \/ body.data.t # "dict"
    \/ /\ body.data.t = "dict"
       /\ "emotionPredictions" \in DOMAIN body.data.d
       /\ LET p == body.data.d["emotionPredictions"]
          IN  \/ p.t # "list"
              \/ /\ p.t = "list" /\ Len(p.items) > 0
                 /\ \/ p.items[1].t # "dict"
                    \/ /\ p.items[1].t = "dict"
                       /\ "emotion" \in DOMAIN p.items[1].d
                       /\ LET m == p.items[1].d["emotion"]
                          IN  \/ m.t # "dict"
                              \/ /\ m.t = "dict"
                                 /\ \E e \in Emotions \cap DOMAIN m.d : ~Coercible(m.d[e])

\* C5: a response whose body is malformed is answered by the all-null record and no
\* exception leaves emotion_detector.
C5_MalformedSuppressed ==
    \A r \in Reqs :
        (HasResponse(r) /\ Malformed(resp[r].body)) =>
            /\ exc[r] = ""
            /\ pc[r] \in {"returned", "done"}
            /\ result[r] # Unset
            /\ ~mutated[r] => Rec(r) = AllNone

\* C6: a transport failure of the outbound call is neither caught nor retried: after
\* exactly one outbound attempt it leaves emotion_detector and the route, and the
\* request yields no record, no "Invalid text" line and no second attempt.
C6_TransportFailureUnhandled ==
    \A r \in Reqs :
        resp[r] = TransportError =>
            /\ calls[r] = 1
            /\ exc[r] = "RequestException"
            /\ result[r] = Unset
            /\ pc[r] \in {"raised", "done"}
            /\ caller[r] = "route" =>
                    IF pc[r] = "raised" THEN http[r] = Unset
                    ELSE http[r] = [t |-> "unhandled", exc |-> "RequestException"]

\* a route request whose outbound call failed has ended unhandled
C6_Witness ==
    \E r \in Reqs :
        /\ caller[r] = "route" /\ pc[r] = "done"
        /\ resp[r] = TransportError
        /\ http[r].t = "unhandled" /\ calls[r] = 1

\* the textToAnalyze content of a request, in the transport of its method
Content(q) ==
    LET f == IF q.method = "GET" THEN q.args ELSE q.form
    IN  IF f = <<>> THEN <<>> ELSE f[1]

\* t is s without its leading and trailing whitespace
IsTrimOf(t, s) ==
    /\ t = <<>> \/ (t[1] \notin Whitespace /\ t[Len(t)] \notin Whitespace)
    /\ \E i \in 0..Len(s) :
        /\ i + Len(t) <= Len(s)
        /\ \A k \in 1..Len(s) :
            IF k <= i \/ k > i + Len(t) THEN s[k] \in Whitespace ELSE s[k] = t[k - i]

\* C7: the route calls emotion_detector with the trimmed textToAnalyze of the
\* request's own transport (query parameter for GET, form field for POST), and
\* answers 200 with 'Invalid text! Please try again!' exactly when the returned
\* record's dominant_emotion is null, else 200 with the sentence of the five
\* scores and the dominant label.
C7_RouteResponse ==
    \A r \in Reqs :
        caller[r] = "route" =>
            /\ IsTrimOf(text[r], Content(request[r]))
            /\ (pc[r] = "done" /\ result[r] # Unset) =>
                /\ http[r].t = "http"
                /\ http[r].status = StatusOK
                /\ (http[r].body = InvalidLine) <=> (Rec(r)["dominant_emotion"] = PyNone)
                /\ Rec(r)["dominant_emotion"] # PyNone =>
                    http[r].body =
                        "For the given statement, the system response is 'anger': "
                        \o Format(Rec(r)["anger"]) \o ", 'disgust': "
                        \o Format(Rec(r)["disgust"]) \o ", 'fear': "
                        \o Format(Rec(r)["fear"]) \o ", 'joy': "
                        \o Format(Rec(r)["joy"]) \o " and 'sadness': "
                        \o Format(Rec(r)["sadness"]) \o ". The dominant emotion is "
                        \o Rec(r)["dominant_emotion"].s \o "."

\* a POST whose form field carries surrounding whitespace, and whose query string
\* carries nothing, was answered with the sentence
C7_Witness ==
    \E r \in Reqs :
        /\ caller[r] = "route" /\ pc[r] = "done"
        /\ request[r].method = "POST" /\ request[r].args = <<>>
        /\ request[r].form # <<>> /\ Len(request[r].form[1]) > Len(text[r])
        /\ http[r].t = "http" /\ http[r].body # InvalidLine
        /\ Rec(r)["joy"] = PyFloat(MaxScore)

\* the first entry of the emotionPredictions list of a slot's response body
PredsOf(r) == resp[r].body.data.d["emotionPredictions"]
HasPredictions(r) ==
    /\ HasResponse(r) /\ resp[r].status_code # BadRequest
    /\ resp[r].body.json /\ resp[r].body.data.t = "dict"
    /\ "emotionPredictions" \in DOMAIN resp[r].body.data.d
    /\ PredsOf(r).t = "list" /\ Len(PredsOf(r).items) > 0

\* C8: with a non-400 response of at least one prediction entry, the scores of the
\* returned record are those of the first entry's emotion mapping, a missing key
\* read as 0.0, and the dominant emotion is decided by these scores alone: later
\* entries have no influence.
C8_FirstEntryOnly ==
    \A r \in Reqs :
        (HasPredictions(r) /\ result[r] # Unset /\ ~mutated[r]) =>
            LET first == PredsOf(r).items[1]
                m == IF "emotion" \in DOMAIN first.d THEN first.d["emotion"] ELSE PyDict(<<>>)
                d == Rec(r)
            IN  /\ first.t = "dict"
                /\ m.t = "dict"
                /\ \A e \in Emotions :
                    IF e \in DOMAIN m.d
                    THEN ToFloat(m.d[e]).ok /\ d[e] = ToFloat(m.d[e]).v
                    ELSE d[e] = PyFloat(0)
                /\ d["dominant_emotion"] =
                    PyStr(PyMax([i \in 1..Len(EmotionOrder) |->
                                    <<EmotionOrder[i], d[EmotionOrder[i]]>>])[1])

\* a response of two entries, the second with sadness highest, gave the record of
\* the first: joy highest, sadness absent and read as 0.0
C8_Witness ==
    \E r \in Reqs :
        /\ HasPredictions(r) /\ pc[r] = "returned"
        /\ Len(PredsOf(r).items) = 2
        /\ PredsOf(r).items[2] = Entry([sadness |-> PyInt(MaxScore)])
        /\ PredsOf(r).items[1] = Entry([joy |-> PyInt(MaxScore)])
        /\ Rec(r)["sadness"] = PyFloat(0)
        /\ Rec(r)["dominant_emotion"] = PyStr("joy")

\* C9: a non-400 response whose body parses to an object without prediction
\* entries (no emotionPredictions key, or an empty list) yields the all-null record.
C9_NoPredictionsAllNull ==
    \A r \in Reqs :
        ( /\ HasResponse(r) /\ resp[r].status_code # BadRequest
          /\ resp[r].body.json /\ resp[r].body.data.t = "dict"
          /\ \/ "emotionPredictions" \notin DOMAIN resp[r].body.data.d
             \/ PredsOf(r) = PyList(<<>>) ) =>
            /\ exc[r] = ""
            /\ pc[r] \in {"returned", "done"}
            /\ result[r] # Unset
            /\ ~mutated[r] => Rec(r) = AllNone

\* a 200 response with an empty emotionPredictions list was answered by the
\* all-null record
C9_Witness ==
    \E r \in Reqs :
        /\ HasResponse(r) /\ resp[r].status_code = 200
        /\ resp[r].body = PredsBody(PyList(<<>>))
        /\ pc[r] = "returned" /\ Rec(r) = AllNone

\* what a slot's call returns by its own text and its own response alone
Expected(r) ==
    IF resp[r] = Unset THEN AllNone
    ELSE IF resp[r].status_code = BadRequest THEN AllNone
    ELSE IF resp[r].body = PredsBody(PyList(<<>>)) THEN AllNone
    ELSE [k \in ResultKeys |->
            IF k = "dominant_emotion" THEN PyStr("joy")
            ELSE PyFloat(IF k = "joy" THEN MaxScore ELSE 0)]

\* C10: under any interleaving and after any earlier requests, EMPTY_RESULT is never
\* modified, every returned record is a dict of its own, and each request's record
\* and answer are decided by its own text and its own upstream response.
C10_RequestsIndependent ==
    /\ EMPTY_RESULT = AllNone
    /\ \A r \in Reqs :
        result[r] # Unset =>
            /\ result[r].own
            /\ ~mutated[r] => Rec(r) = Expected(r)
            /\ (caller[r] = "route" /\ pc[r] = "done") => http[r] = Render(Expected(r))

\* one caller has written into the all-null record it was handed, and another slot
\* then holds an all-null record of a blank text
C10_Witness ==
    \E r1, r2 \in Reqs :
        /\ r1 # r2
        /\ mutated[r1] /\ resp[r1] = Unset /\ Rec(r1) # AllNone
        /\ result[r2] # Unset /\ resp[r2] = Unset /\ ~mutated[r2]
        /\ Rec(r2) = AllNone

====
